---- MODULE Spec2Model ----
(***************************************************************************)
(* save-me-files: a directory-tree file copier.                            *)
(*                                                                         *)
(* The model follows src/src/suffixes.rs, src/src/exclusions.rs,           *)
(* src/src/files.rs and src/src/main.rs.  Text is a sequence of            *)
(* one-character strings, a path (PathBuf) is the text it was built from,  *)
(* and the filesystem maps the component sequence of an absolute path to   *)
(* the node found there.                                                   *)
(***************************************************************************)
EXTENDS Integers, Sequences, FiniteSets, TLC

VARIABLES
    fs,             \* the filesystem: component sequence -> node
    pc,             \* the position of the running function
    opened,         \* the content of the list file at File::open
    reader,         \* what BufReader::lines has not yet yielded
    suffixes,       \* Vec<String> collected by read_suffixes
    exclusions,     \* Vec<PathBuf> collected by read_exclusions
    log,            \* the entries written through the log crate
    failing,        \* the locations whose traversal the system refuses
    src_directory,  \* args.src_directory
    stack,          \* the entries WalkDir has still to yield, next first
    files_to_copy,  \* Vec<PathBuf> collected by find_files_to_copy
    size_pos,       \* calculate_files_size: the index of the next path
    needed_space,   \* calculate_files_size: the sum so far, then the result
    fs0,            \* the filesystem when the run began, the same at the call of copy_files
    dst_directory,  \* args.dst_directory
    task,           \* copy_files: the state of the closure run on each path
    panicked,       \* an unwrap of copy_files has panicked
    include_suffixes_file,  \* args.include_suffixes_file: <<>> is None, <<p>> is Some(p)
    exclude_paths_file,     \* args.exclude_paths_file, likewise
    no_copy,        \* args.no_copy
    available_space,        \* what fs4::available_space answered
    result          \* what main returned, "running" until it does

vars == <<fs, pc, opened, reader, suffixes, exclusions, log, failing,
          src_directory, stack, files_to_copy, size_pos, needed_space,
          fs0, dst_directory, task, panicked,
          include_suffixes_file, exclude_paths_file, no_copy, available_space, result>>

mainVars == <<include_suffixes_file, exclude_paths_file, no_copy, available_space, result>>

\* The state of main while one of its functions is looked at alone.
MainUnset ==
    /\ include_suffixes_file = <<>>
    /\ exclude_paths_file = <<>>
    /\ no_copy = FALSE
    /\ available_space = 0
    /\ result = "running"

sizeVars == <<size_pos, needed_space>>

copyVars == <<fs0, dst_directory, task, panicked>>

copyVarsFixed == <<fs0, dst_directory, panicked>>

walkVars == <<failing, src_directory, stack, files_to_copy>>

(***************************************************************************)
(* Bounds of the model.                                                    *)
(***************************************************************************)
MaxSuffixFileLen == 6
MaxExclusionFileLen == 6
MaxSuffixes == 2
MaxExclusions == 2
MaxSizedFiles == 3
MaxCopiedFiles == 3

(***************************************************************************)
(* Characters.                                                             *)
(***************************************************************************)
Lower == {"a", "b", "c", "d", "e", "f", "g", "h", "i", "j", "k", "l", "m",
          "n", "o", "p", "q", "r", "s", "t", "u", "v", "w", "x", "y", "z"}

Upper == {"A", "B", "C", "D", "E", "F", "G", "H", "I", "J", "K", "L", "M",
          "N", "O", "P", "Q", "R", "S", "T", "U", "V", "W", "X", "Y", "Z"}

Digit == {"0", "1", "2", "3", "4", "5", "6", "7", "8", "9"}

\* char::is_whitespace, as str::trim and the regex class \s use it
White == {" ", "\t", "\n", "\r"}

\* All texts over alphabet A of length at most n.
TextsUpTo(A, n) == UNION {[1..k -> A] : k \in 0..n}

Range(s) == {s[i] : i \in DOMAIN s}

(***************************************************************************)
(* str::trim, str::starts_with, BufRead::lines.                            *)
(***************************************************************************)
RECURSIVE trim_start(_)
trim_start(s) ==
    IF s # <<>> /\ Head(s) \in White THEN trim_start(Tail(s)) ELSE s

RECURSIVE trim_end(_)
trim_end(s) ==
    IF s # <<>> /\ s[Len(s)] \in White
    THEN trim_end(SubSeq(s, 1, Len(s) - 1))
    ELSE s

trim(s) == trim_end(trim_start(s))

str_starts_with(s, prefix) ==
    /\ Len(prefix) <= Len(s)
    /\ SubSeq(s, 1, Len(prefix)) = prefix

\* The index of the first "\n" of text, 0 when it has none.
NewlineAt(text) ==
    IF \E i \in DOMAIN text : text[i] = "\n"
    THEN CHOOSE i \in DOMAIN text :
            /\ text[i] = "\n"
            /\ \A j \in 1..(i - 1) : text[j] # "\n"
    ELSE 0

\* One call of Lines::next on a non-empty remainder: the line without its
\* "\n" or "\r\n", and what is left to read.
next_line(text) ==
    LET k == NewlineAt(text)
        raw == IF k = 0 THEN text ELSE SubSeq(text, 1, k - 1)
        line == IF k # 0 /\ raw # <<>> /\ raw[Len(raw)] = "\r"
                THEN SubSeq(raw, 1, Len(raw) - 1)
                ELSE raw
    IN  [line |-> line,
         rest |-> IF k = 0 THEN <<>> ELSE SubSeq(text, k + 1, Len(text))]

Warn(what, arg) == [level |-> "WARN", what |-> what, arg |-> arg]

(***************************************************************************)
(* suffixes.rs                                                             *)
(***************************************************************************)
COMMENT_LINE_PREFIX == <<"/", "/">>

\* The character class of VALID_SUFFIX_REGEX: [a-zA-Z0-9_.\-\s]
SuffixClass == Lower \cup Upper \cup Digit \cup {"_", ".", "-"} \cup White

\* Regex::is_match for ^[a-zA-Z0-9_.\-\s]+$ : one character of the class,
\* then any number of them up to the end of the text.
RECURSIVE ClassStar(_)
ClassStar(s) ==
    \/ s = <<>>
    \/ s # <<>> /\ Head(s) \in SuffixClass /\ ClassStar(Tail(s))

\* The same pattern with * in place of +.
valid_suffix_is_match_star(line) == ClassStar(line)

valid_suffix_is_match(line) ==
    line # <<>> /\ Head(line) \in SuffixClass /\ ClassStar(Tail(line))

\* The closure given to filter in read_suffixes: what it logs for one
\* trimmed line.
suffix_filter_log(line) ==
    IF ~valid_suffix_is_match(line) /\ ~str_starts_with(line, COMMENT_LINE_PREFIX)
    THEN <<Warn("Invalid suffix", line)>>
    ELSE <<>>

\* The texts a suffix file of the model may hold.
SuffixAlphabet == {"t", "/", " ", "\n"}

SuffixFiles == TextsUpTo(SuffixAlphabet, MaxSuffixFileLen)

InitSuffixes ==
    /\ fs = <<>>
    /\ pc = "read_suffixes"
    /\ opened \in SuffixFiles
    /\ reader = opened
    /\ suffixes = <<>>
    /\ exclusions = <<>>
    /\ log = <<>>
    /\ failing = {}
    /\ src_directory = <<>>
    /\ stack = <<>>
    /\ files_to_copy = <<>>
    /\ size_pos = 0
    /\ needed_space = 0
    /\ fs0 = <<>>
    /\ dst_directory = <<>>
    /\ task = <<>>
    /\ panicked = FALSE
    /\ MainUnset

\* One line through the iterator chain lines().map(trim).filter(..).
SuffixLine ==
    /\ pc = "read_suffixes"
    /\ reader # <<>>
    /\ LET nl == next_line(reader)
           line == trim(nl.line)
       IN  /\ reader' = nl.rest
           /\ log' = log \o suffix_filter_log(line)
           /\ suffixes' = IF valid_suffix_is_match(line)
                          THEN Append(suffixes, line)
                          ELSE suffixes
    /\ UNCHANGED <<mainVars, fs, pc, opened, exclusions, walkVars, sizeVars, copyVars>>

\* lines() is exhausted: collect() ends and Ok(suffixes) is returned.
SuffixesReturn ==
    /\ pc = "read_suffixes"
    /\ reader = <<>>
    /\ pc' = "suffixes_read"
    /\ UNCHANGED <<mainVars, fs, opened, reader, suffixes, exclusions, log, walkVars, sizeVars, copyVars>>

NextSuffixes == SuffixLine \/ SuffixesReturn

SpecSuffixes == InitSuffixes /\ [][NextSuffixes]_vars

(***************************************************************************)
(* std::path and the filesystem.                                           *)
(***************************************************************************)
\* A node of the filesystem.  size is what Metadata::len reports, data stands
\* for the bytes, to is where a symbolic link points.
Dir == [kind |-> "dir", size |-> 0, data |-> "", to |-> <<>>]
File(size, data) == [kind |-> "file", size |-> size, data |-> data, to |-> <<>>]
Symlink(to) == [kind |-> "symlink", size |-> 0, data |-> "", to |-> to]

\* Path::is_absolute on Unix: the path has a root.
is_absolute(path) == path # <<>> /\ Head(path) = "/"

\* Path::components: the names between separators; repeated separators, a
\* trailing separator and "." are normalised away.
RECURSIVE SplitPath(_, _, _)
SplitPath(path, cur, acc) ==
    LET close == IF cur = <<>> \/ cur = <<".">> THEN acc ELSE Append(acc, cur)
    IN  IF path = <<>> THEN close
        ELSE IF Head(path) = "/" THEN SplitPath(Tail(path), <<>>, close)
        ELSE SplitPath(Tail(path), Append(cur, Head(path)), acc)

components(path) == SplitPath(path, <<>>, <<>>)

\* lstat: the node at an absolute location, symbolic links not followed.
Exists(names) == names \in DOMAIN fs
IsDirAt(names) == Exists(names) /\ fs[names].kind = "dir"
IsFileAt(names) == Exists(names) /\ fs[names].kind = "file"

\* stat: a symbolic link in the last place is followed once.
Follow(names) ==
    IF Exists(names) /\ fs[names].kind = "symlink" THEN fs[names].to ELSE names

\* Path::is_dir of an absolute path.
is_dir(path) == is_absolute(path) /\ IsDirAt(Follow(components(path)))

(***************************************************************************)
(* exclusions.rs                                                           *)
(***************************************************************************)
\* The closure given to filter in read_exclusions, with the directory check
\* left out.
exclusion_filter_keep_any(path) ==
    is_absolute(path) /\ ~str_starts_with(path, COMMENT_LINE_PREFIX)

\* The closure given to filter in read_exclusions: whether the path is kept.
exclusion_filter_keep(path) ==
    IF ~is_absolute(path) THEN FALSE
    ELSE IF str_starts_with(path, COMMENT_LINE_PREFIX) THEN FALSE
    ELSE IF ~is_dir(path) THEN FALSE
    ELSE TRUE

\* The same closure without its comment check: what it would log.
exclusion_filter_log_no_comment(path) ==
    IF ~is_absolute(path)
    THEN <<Warn("Exclusion directory is not an absolute path", path)>>
    ELSE IF ~is_dir(path)
    THEN <<Warn("Exclusion directory not exist", path)>>
    ELSE <<>>

\* The same closure: what it logs.
exclusion_filter_log(path) ==
    IF ~is_absolute(path)
    THEN <<Warn("Exclusion directory is not an absolute path", path)>>
    ELSE IF str_starts_with(path, COMMENT_LINE_PREFIX) THEN <<>>
    ELSE IF ~is_dir(path)
    THEN <<Warn("Exclusion directory not exist", path)>>
    ELSE <<>>

\* The texts an exclusion file of the model may hold, and the filesystems
\* they are read against.
ExclusionAlphabet == {"a", "/", " ", "\n"}

ExclusionFiles == TextsUpTo(ExclusionAlphabet, MaxExclusionFileLen)

NameA == <<"a">>

ExclusionFilesystems ==
    {(<<>> :> Dir),
     (<<>> :> Dir) @@ (<<NameA>> :> File(1, "x")),
     (<<>> :> Dir) @@ (<<NameA>> :> Dir),
     (<<>> :> Dir) @@ (<<NameA>> :> Dir) @@ (<<NameA, NameA>> :> File(1, "x")),
     (<<>> :> Dir) @@ (<<NameA>> :> Dir) @@ (<<NameA, NameA>> :> Dir)}

InitExclusions ==
    /\ fs \in ExclusionFilesystems
    /\ pc = "read_exclusions"
    /\ opened \in ExclusionFiles
    /\ reader = opened
    /\ suffixes = <<>>
    /\ exclusions = <<>>
    /\ log = <<>>
    /\ failing = {}
    /\ src_directory = <<>>
    /\ stack = <<>>
    /\ files_to_copy = <<>>
    /\ size_pos = 0
    /\ needed_space = 0
    /\ fs0 = <<>>
    /\ dst_directory = <<>>
    /\ task = <<>>
    /\ panicked = FALSE
    /\ MainUnset

\* One line through the iterator chain lines().map(PathBuf::from(trim)).filter(..).
ExclusionLine ==
    /\ pc = "read_exclusions"
    /\ reader # <<>>
    /\ LET nl == next_line(reader)
           path == trim(nl.line)
       IN  /\ reader' = nl.rest
           /\ log' = log \o exclusion_filter_log(path)
           /\ exclusions' = IF exclusion_filter_keep(path)
                            THEN Append(exclusions, path)
                            ELSE exclusions
    /\ UNCHANGED <<mainVars, fs, pc, opened, suffixes, walkVars, sizeVars, copyVars>>

\* lines() is exhausted: collect() ends and Ok(exclusions) is returned.
ExclusionsReturn ==
    /\ pc = "read_exclusions"
    /\ reader = <<>>
    /\ pc' = "exclusions_read"
    /\ UNCHANGED <<mainVars, fs, opened, reader, suffixes, exclusions, log, walkVars, sizeVars, copyVars>>

NextExclusions == ExclusionLine \/ ExclusionsReturn

SpecExclusions == InitExclusions /\ [][NextExclusions]_vars

\* Either loader, as main calls them on the file it was given.
InitLoaders == InitSuffixes \/ InitExclusions

NextLoaders == NextSuffixes \/ NextExclusions

SpecLoaders == InitLoaders /\ [][NextLoaders]_vars

(***************************************************************************)
(* files.rs: find_files_to_copy                                            *)
(***************************************************************************)
\* The marker Path::components yields first for a path that has a root.
RootDir == <<"/">>

rooted_components(path) ==
    (IF is_absolute(path) THEN <<RootDir>> ELSE <<>>) \o components(path)

\* Path::starts_with taken as a prefix test on the text of the two paths.
path_starts_with_text(path, base) == str_starts_with(path, base)

\* Path::starts_with: base's components are the first components of path.
path_starts_with(path, base) ==
    LET pcs == rooted_components(path)
        bcs == rooted_components(base)
    IN  Len(bcs) <= Len(pcs) /\ SubSeq(pcs, 1, Len(bcs)) = bcs

\* Path::join with a single name.
join(path, name) ==
    IF path # <<>> /\ path[Len(path)] = "/"
    THEN path \o name
    ELSE path \o <<"/">> \o name

\* DirEntry::file_name: the last component of the entry's path.
file_name(path) ==
    LET cs == components(path) IN IF cs = <<>> THEN <<>> ELSE cs[Len(cs)]

\* DirEntry::file_type, which WalkDir takes without following links.
entry_is_dir(path) == IsDirAt(components(path))

\* The filter on file_type().is_file() left out.
entry_is_file_any(path) == TRUE

entry_is_file(path) == IsFileAt(components(path))

\* A set as a sequence, in one fixed order.
RECURSIVE SetToSeq(_)
SetToSeq(S) ==
    IF S = {} THEN <<>>
    ELSE LET x == CHOOSE y \in S : TRUE IN <<x>> \o SetToSeq(S \ {x})

\* fs::read_dir as WalkDir uses it: the paths of the entries of a directory.
\* The order is the system's; the model takes one.
read_dir(path) ==
    LET at == components(path)
        kids == {d \in DOMAIN fs : Len(d) = Len(at) + 1 /\ SubSeq(d, 1, Len(at)) = at}
    IN  SetToSeq({join(path, d[Len(d)]) : d \in kids})

\* should_keep_entry pruning only a directory that is itself an exclusion.
should_keep_entry_eq(entry, excl) ==
    ~entry_is_dir(entry)
        \/ ~\E i \in DOMAIN excl : rooted_components(entry) = rooted_components(excl[i])

should_keep_entry(entry, excl) ==
    ~entry_is_dir(entry) \/ ~\E i \in DOMAIN excl : path_starts_with(entry, excl[i])

\* str::contains in place of str::ends_with.
str_contains(s, part) ==
    \E k \in 0..(Len(s) - Len(part)) : SubSeq(s, k + 1, k + Len(part)) = part

\* str::ends_with
str_ends_with(s, suffix) ==
    /\ Len(suffix) <= Len(s)
    /\ SubSeq(s, Len(s) - Len(suffix) + 1, Len(s)) = suffix

should_copy_file(entry, sfx) ==
    \E i \in DOMAIN sfx : str_ends_with(file_name(entry), sfx[i])

\* The tree the selection is run on:
\*   /s/r.txt                      /s/foobar/b.txt
\*   /s/foo/a.txt                  /s/foobar/x.txt2
\*   /s/foo/sub/e.txt              /s/foobar/R.TXT
\*   /s/d.txt/c.log                /s/d.txt/l.txt -> /s/r.txt
NameS == <<"s">>
NameFoo == <<"f", "o", "o">>
NameFoobar == <<"f", "o", "o", "b", "a", "r">>
NameSub == <<"s", "u", "b">>
NameR == <<"r", ".", "t", "x", "t">>
NameA_txt == <<"a", ".", "t", "x", "t">>
NameB_txt == <<"b", ".", "t", "x", "t">>
NameE_txt == <<"e", ".", "t", "x", "t">>
NameX == <<"x", ".", "t", "x", "t", "2">>
NameUpper == <<"R", ".", "T", "X", "T">>
NameD == <<"d", ".", "t", "x", "t">>
NameC == <<"c", ".", "l", "o", "g">>
NameL == <<"l", ".", "t", "x", "t">>

SelectTree ==
    (<<>> :> Dir)
    @@ (<<NameS>> :> Dir)
    @@ (<<NameS, NameR>> :> File(2, "r"))
    @@ (<<NameS, NameFoo>> :> Dir)
    @@ (<<NameS, NameFoo, NameA_txt>> :> File(1, "a"))
    @@ (<<NameS, NameFoo, NameSub>> :> Dir)
    @@ (<<NameS, NameFoo, NameSub, NameE_txt>> :> File(1, "e"))
    @@ (<<NameS, NameFoobar>> :> Dir)
    @@ (<<NameS, NameFoobar, NameB_txt>> :> File(1, "b"))
    @@ (<<NameS, NameFoobar, NameX>> :> File(3, "x"))
    @@ (<<NameS, NameFoobar, NameUpper>> :> File(1, "R"))
    @@ (<<NameS, NameD>> :> Dir)
    @@ (<<NameS, NameD, NameC>> :> File(2, "c"))
    @@ (<<NameS, NameD, NameL>> :> Symlink(<<NameS, NameR>>))

\* The path text of a location, as joins from the root build it.
RECURSIVE TextOf(_)
TextOf(d) ==
    IF d = <<>> THEN <<"/">> ELSE join(TextOf(SubSeq(d, 1, Len(d) - 1)), d[Len(d)])

\* The lines an exclusion file may hold for that tree; read_exclusions keeps
\* those that pass its filter.
ExclusionCandidates ==
    {TextOf(<<>>), TextOf(<<NameS>>), TextOf(<<NameS, NameFoo>>),
     TextOf(<<NameS, NameFoo>>) \o <<"/">>,
     TextOf(<<NameS, NameFoo, NameSub>>), TextOf(<<NameS, NameD>>),
     TextOf(<<NameS, NameFoobar>>),
     TextOf(<<NameS, NameR>>), TextOf(<<NameS, <<"f", "o">>>>),
     NameFoo, <<"/">> \o TextOf(<<NameS, NameFoo>>)}

\* The lines a suffix file may hold; read_suffixes keeps those its pattern
\* matches.
SuffixCandidates ==
    {<<".", "t", "x", "t">>, <<"t", "x", "t", "2">>, <<".", "l", "o", "g">>,
     <<"t">>, <<"r", ".", "t", "x", "t">>, <<"/", "t">>}

\* The locations whose traversal may fail.
FailingCandidates ==
    {<<NameS, NameFoo>>, <<NameS, NameFoobar, NameB_txt>>, <<NameS, NameD>>}

\* main up to the call of find_files_to_copy: the suffixes are those of a
\* suffix file or the single empty suffix, the exclusions those of an
\* exclusion file.
InitSelect ==
    /\ fs = SelectTree
    /\ pc = "find_files_to_copy"
    /\ opened = <<>>
    /\ reader = <<>>
    /\ log = <<>>
    /\ suffixes \in
          {SetToSeq(S) : S \in {T \in SUBSET {c \in SuffixCandidates : valid_suffix_is_match(c)} :
                                    Cardinality(T) <= MaxSuffixes}}
          \cup {<< <<>> >>}
    /\ exclusions \in
          {SetToSeq(S) : S \in {T \in SUBSET {c \in ExclusionCandidates : exclusion_filter_keep(c)} :
                                    Cardinality(T) <= MaxExclusions}}
    /\ failing \in SUBSET FailingCandidates
    /\ src_directory = TextOf(<<NameS>>)
    /\ stack = <<src_directory>>
    /\ files_to_copy = <<>>
    /\ size_pos = 0
    /\ needed_space = 0
    /\ fs0 = <<>>
    /\ dst_directory = <<>>
    /\ task = <<>>
    /\ panicked = FALSE
    /\ MainUnset

\* One entry out of WalkDir and through the iterator chain of
\* find_files_to_copy.
WalkEntry ==
    /\ pc = "find_files_to_copy"
    /\ stack # <<>>
    /\ LET entry == Head(stack)
           at == components(entry)
       IN  IF at \in failing /\ ~entry_is_dir(entry)
           THEN \* the entry is an Err: filter_map logs it
                /\ log' = Append(log, Warn("walkdir", entry))
                /\ stack' = Tail(stack)
                /\ UNCHANGED files_to_copy
           ELSE IF ~should_keep_entry(entry, exclusions)
           THEN \* filter_entry: not yielded, not descended into
                /\ stack' = Tail(stack)
                /\ UNCHANGED <<log, files_to_copy>>
           ELSE IF entry_is_dir(entry)
           THEN IF at \in failing
                THEN \* the directory cannot be listed: an Err follows it
                     /\ log' = Append(log, Warn("walkdir", entry))
                     /\ stack' = Tail(stack)
                     /\ UNCHANGED files_to_copy
                ELSE /\ stack' = read_dir(entry) \o Tail(stack)
                     /\ UNCHANGED <<log, files_to_copy>>
           ELSE /\ stack' = Tail(stack)
                /\ files_to_copy' =
                      IF entry_is_file(entry) /\ should_copy_file(entry, suffixes)
                      THEN Append(files_to_copy, entry)
                      ELSE files_to_copy
                /\ UNCHANGED log
    /\ UNCHANGED <<mainVars, fs, pc, opened, reader, suffixes, exclusions, failing, src_directory,
                   sizeVars, copyVars>>

\* WalkDir is exhausted: collect() ends.
WalkReturn ==
    /\ pc = "find_files_to_copy"
    /\ stack = <<>>
    /\ pc' = "files_found"
    /\ UNCHANGED <<mainVars, fs, opened, reader, suffixes, exclusions, log, walkVars, sizeVars, copyVars>>

NextSelect == WalkEntry \/ WalkReturn

SpecSelect == InitSelect /\ [][NextSelect]_vars

(***************************************************************************)
(* files.rs: calculate_files_size                                          *)
(***************************************************************************)
\* std::fs::metadata: stat of the path, a symbolic link followed.
metadata(path) ==
    LET at == Follow(components(path))
    IN  IF is_absolute(path) /\ Exists(at)
        THEN [ok |-> TRUE, len |-> fs[at].size]
        ELSE [ok |-> FALSE, len |-> 0]

\* The iterator chain ending at the first Err, as map_while would.
size_after_error_stop(pos) == Len(files_to_copy) + 1

\* filter_map gives None for an Err: the chain goes on with the next path.
size_after_error(pos) == pos + 1

\* The regular files of SelectTree, as find_files_to_copy may return them.
SelectableFiles == {TextOf(d) : d \in {x \in DOMAIN SelectTree : SelectTree[x].kind = "file"}}

\* main after find_files_to_copy.  The file sizes stay below 2^64 / MaxSizedFiles,
\* so the u64 sum is the sum.
InitSize ==
    /\ fs = SelectTree
    /\ pc = "files_found"
    /\ opened = <<>>
    /\ reader = <<>>
    /\ log = <<>>
    /\ suffixes = << <<>> >>
    /\ exclusions = <<>>
    /\ failing = {}
    /\ src_directory = TextOf(<<NameS>>)
    /\ stack = <<>>
    /\ files_to_copy \in
          {SetToSeq(S) : S \in {T \in SUBSET SelectableFiles : Cardinality(T) <= MaxSizedFiles}}
    /\ size_pos = 0
    /\ needed_space = 0
    /\ fs0 = <<>>
    /\ dst_directory = <<>>
    /\ task = <<>>
    /\ panicked = FALSE
    /\ MainUnset

\* Another process removes a selected file before the sizes are read.
RemoveSelected ==
    /\ pc = "files_found"
    /\ \E i \in DOMAIN files_to_copy :
          /\ Exists(components(files_to_copy[i]))
          /\ fs' = [d \in DOMAIN fs \ {components(files_to_copy[i])} |-> fs[d]]
    /\ UNCHANGED <<mainVars, pc, opened, reader, suffixes, exclusions, log, walkVars, sizeVars, copyVars>>

\* main calls calculate_files_size.
SizeCall ==
    /\ pc = "files_found"
    /\ pc' = "calculate_files_size"
    /\ size_pos' = 1
    /\ needed_space' = 0
    /\ UNCHANGED <<mainVars, fs, opened, reader, suffixes, exclusions, log, walkVars, copyVars>>

\* One path through the iterator chain map(metadata).filter_map(..).sum().
SizeFile ==
    /\ pc = "calculate_files_size"
    /\ size_pos \in DOMAIN files_to_copy
    /\ LET md == metadata(files_to_copy[size_pos])
       IN  IF md.ok
           THEN /\ needed_space' = needed_space + md.len
                /\ size_pos' = size_pos + 1
                /\ UNCHANGED log
           ELSE /\ log' = Append(log, Warn("metadata", files_to_copy[size_pos]))
                /\ size_pos' = size_after_error(size_pos)
                /\ UNCHANGED needed_space
    /\ UNCHANGED <<mainVars, fs, pc, opened, reader, suffixes, exclusions, walkVars, copyVars>>

\* The paths are exhausted: the sum is returned.
SizeReturn ==
    /\ pc = "calculate_files_size"
    /\ size_pos > Len(files_to_copy)
    /\ pc' = "size_known"
    /\ UNCHANGED <<mainVars, fs, opened, reader, suffixes, exclusions, log, walkVars, sizeVars, copyVars>>

NextSize == RemoveSelected \/ SizeCall \/ SizeFile \/ SizeReturn

SpecSize == InitSize /\ [][NextSize]_vars

(***************************************************************************)
(* files.rs: copy_files, create_directories, copy_file                     *)
(***************************************************************************)
\* Path::strip_prefix: the names of path after those of base, or an Err.
strip_prefix(path, base) ==
    LET pcs == rooted_components(path)
        bcs == rooted_components(base)
    IN  IF path_starts_with(path, base)
        THEN [ok |-> TRUE, rel |-> SubSeq(pcs, Len(bcs) + 1, Len(pcs))]
        ELSE [ok |-> FALSE, rel |-> <<>>]

\* Path::join with the last name only, as joining file_name() would.
join_all_flat(path, names) ==
    IF names = <<>> THEN path ELSE join(path, names[Len(names)])

\* Path::join with a relative path of several names.
RECURSIVE join_all(_, _)
join_all(path, names) ==
    IF names = <<>> THEN path ELSE join_all(join(path, Head(names)), Tail(names))

\* Path::parent of an absolute path: None for the root.
parent(path) ==
    LET cs == components(path)
    IN  IF cs = <<>>
        THEN [ok |-> FALSE, path |-> <<>>]
        ELSE [ok |-> TRUE, path |-> TextOf(SubSeq(cs, 1, Len(cs) - 1))]

\* std::fs::create_dir: what mkdir answers for the path.
create_dir(path) ==
    LET at == components(path)
    IN  IF Exists(at) THEN "AlreadyExists"
        ELSE IF ~IsDirAt(Follow(SubSeq(at, 1, Len(at) - 1))) THEN "NotFound"
        ELSE IF at \in failing THEN "PermissionDenied"
        ELSE "Ok"

\* std::fs::copy: whether the bytes of src can be written to dst.
copy_ok(src, dst) ==
    LET from == Follow(components(src))
        to == Follow(components(dst))
    IN  /\ IsFileAt(from) /\ from \notin failing
        /\ to # <<>> /\ IsDirAt(Follow(SubSeq(to, 1, Len(to) - 1)))
        /\ ~IsDirAt(to) /\ to \notin failing

\* std::fs::copy: the filesystem after a copy that succeeds.  The destination
\* is opened with truncation before the source is read, so a file copied onto
\* itself is left empty.
copied(src, dst) ==
    LET from == Follow(components(src))
        to == Follow(components(dst))
        node == IF from = to THEN File(0, "") ELSE File(fs[from].size, fs[from].data)
    IN  [d \in DOMAIN fs \cup {to} |-> IF d = to THEN node ELSE fs[d]]

NewTask ==
    [pc |-> "map", dst_path |-> <<>>, dir_path |-> <<>>, todo |-> <<>>,
     mkdir |-> "none", copy |-> "none"]

NameT == <<"t">>

\* The destination as the copy may find it: empty, with the directory foo,
\* or with a file named foo.
CopyFilesystems ==
    {SelectTree @@ (<<NameT>> :> Dir),
     SelectTree @@ (<<NameT>> :> Dir) @@ (<<NameT, NameFoo>> :> Dir),
     SelectTree @@ (<<NameT>> :> Dir) @@ (<<NameT, NameFoo>> :> File(1, "f"))}

CopyCandidates ==
    {TextOf(<<NameS, NameR>>), TextOf(<<NameS, NameFoo, NameA_txt>>),
     TextOf(<<NameS, NameFoo, NameSub, NameE_txt>>),
     TextOf(<<NameS, NameFoobar, NameB_txt>>)}

\* The locations where the copy may be refused: a directory that cannot be
\* created and a source file that cannot be read.
CopyFailingCandidates ==
    {<<NameT, NameFoo, NameSub>>, <<NameS, NameFoo, NameA_txt>>}

\* main at the call of copy_files.
InitCopy ==
    /\ fs \in CopyFilesystems
    /\ fs0 = fs
    /\ pc = "copy_files"
    /\ opened = <<>>
    /\ reader = <<>>
    /\ log = <<>>
    /\ suffixes = << <<>> >>
    /\ exclusions = <<>>
    /\ failing \in SUBSET CopyFailingCandidates
    /\ src_directory = TextOf(<<NameS>>)
    /\ dst_directory = TextOf(<<NameT>>)
    /\ stack = <<>>
    /\ files_to_copy \in
          {SetToSeq(S) : S \in {T \in SUBSET CopyCandidates : Cardinality(T) <= MaxCopiedFiles}}
    /\ size_pos = 0
    /\ needed_space = 0
    /\ task = [i \in DOMAIN files_to_copy |-> NewTask]
    /\ panicked = FALSE
    /\ MainUnset

\* The closure given to map in copy_files, and the head of
\* create_directories: the destination path and the names of the
\* directories between the destination root and the file.
TaskMap(i) ==
    /\ pc = "copy_files" /\ ~panicked
    /\ task[i].pc = "map"
    /\ LET stripped == strip_prefix(files_to_copy[i], src_directory)
           dst_path == join_all(dst_directory, stripped.rel)
           up == parent(dst_path)
           between == strip_prefix(up.path, dst_directory)
       IN  IF ~stripped.ok \/ ~up.ok \/ ~between.ok
           THEN \* unwrap of an Err or a None
                /\ panicked' = TRUE
                /\ UNCHANGED task
           ELSE /\ task' = [task EXCEPT ![i].pc = "loop",
                                        ![i].dst_path = dst_path,
                                        ![i].dir_path = dst_directory,
                                        ![i].todo = between.rel]
                /\ UNCHANGED panicked
    /\ UNCHANGED <<mainVars, fs, pc, opened, reader, suffixes, exclusions, log, walkVars, sizeVars,
                   fs0, dst_directory>>

\* create_directories: dir_path.push(component) and dir_path.is_dir(), or the
\* end of the loop.
TaskIsDir(i) ==
    /\ pc = "copy_files" /\ ~panicked
    /\ task[i].pc = "loop"
    /\ IF task[i].todo = <<>>
       THEN task' = [task EXCEPT ![i].pc = "copy"]
       ELSE LET dir_path == join(task[i].dir_path, Head(task[i].todo))
            IN  task' = [task EXCEPT ![i].dir_path = dir_path,
                                     ![i].todo = Tail(task[i].todo),
                                     ![i].pc = IF is_dir(dir_path) THEN "loop"
                                               ELSE "create_dir"]
    /\ UNCHANGED <<mainVars, fs, pc, opened, reader, suffixes, exclusions, log, walkVars, sizeVars,
                   fs0, dst_directory, panicked>>

\* create_directories with the Err of create_dir unwrapped.
TaskCreateDirUnwrap(i) ==
    /\ pc = "copy_files" /\ ~panicked
    /\ task[i].pc = "create_dir"
    /\ LET res == create_dir(task[i].dir_path)
       IN  IF res = "Ok"
           THEN /\ fs' = [d \in DOMAIN fs \cup {components(task[i].dir_path)} |->
                            IF d \in DOMAIN fs THEN fs[d] ELSE Dir]
                /\ task' = [task EXCEPT ![i].pc = "loop", ![i].mkdir = res]
                /\ UNCHANGED panicked
           ELSE /\ panicked' = TRUE
                /\ task' = [task EXCEPT ![i].mkdir = res]
                /\ UNCHANGED fs
    /\ UNCHANGED <<mainVars, pc, opened, reader, suffixes, exclusions, log, walkVars, sizeVars,
                   fs0, dst_directory>>

\* create_directories: fs::create_dir(&dir_path); any Err is logged and ends
\* the loop.
TaskCreateDir(i) ==
    /\ pc = "copy_files" /\ ~panicked
    /\ task[i].pc = "create_dir"
    /\ LET res == create_dir(task[i].dir_path)
       IN  IF res = "Ok"
           THEN /\ fs' = [d \in DOMAIN fs \cup {components(task[i].dir_path)} |->
                            IF d \in DOMAIN fs THEN fs[d] ELSE Dir]
                /\ task' = [task EXCEPT ![i].pc = "loop", ![i].mkdir = res]
                /\ UNCHANGED log
           ELSE /\ log' = Append(log, Warn("Failed to create parent directories",
                                           task[i].dst_path))
                /\ task' = [task EXCEPT ![i].pc = "copy", ![i].mkdir = res]
                /\ UNCHANGED fs
    /\ UNCHANGED <<mainVars, pc, opened, reader, suffixes, exclusions, walkVars, sizeVars, copyVarsFixed>>

\* copy_file: fs::copy(src, dst), logged either way.
TaskCopyFile(i) ==
    /\ pc = "copy_files" /\ ~panicked
    /\ task[i].pc = "copy"
    /\ IF copy_ok(files_to_copy[i], task[i].dst_path)
       THEN /\ fs' = copied(files_to_copy[i], task[i].dst_path)
            /\ log' = Append(log, [level |-> "INFO", what |-> "Copied",
                                   arg |-> task[i].dst_path])
            /\ task' = [task EXCEPT ![i].pc = "done", ![i].copy = "ok"]
       ELSE /\ log' = Append(log, Warn("copy", task[i].dst_path))
            /\ task' = [task EXCEPT ![i].pc = "done", ![i].copy = "err"]
            /\ UNCHANGED fs
    /\ UNCHANGED <<mainVars, pc, opened, reader, suffixes, exclusions, walkVars, sizeVars, copyVarsFixed>>

\* copy_files going back to the selection once the closures are done.
CopyReturnRescan ==
    /\ pc = "copy_files" /\ ~panicked
    /\ \A i \in DOMAIN task : task[i].pc = "done"
    /\ pc' = "exclusions_read"
    /\ UNCHANGED <<mainVars, fs, opened, reader, suffixes, exclusions, log, walkVars,
                   sizeVars, copyVars>>

\* for_each has run the closure on every path: copy_files returns.
CopyReturn ==
    /\ pc = "copy_files" /\ ~panicked
    /\ \A i \in DOMAIN task : task[i].pc = "done"
    /\ pc' = "copied"
    /\ UNCHANGED <<mainVars, fs, opened, reader, suffixes, exclusions, log, walkVars, sizeVars, copyVars>>

\* The paths are handed to the threads of the pool: the closures run in any
\* order, interleaved at their system calls.
NextCopy ==
    \/ \E i \in DOMAIN task : TaskMap(i)
    \/ \E i \in DOMAIN task : TaskIsDir(i)
    \/ \E i \in DOMAIN task : TaskCreateDir(i)
    \/ \E i \in DOMAIN task : TaskCopyFile(i)
    \/ CopyReturn

SpecCopy == InitCopy /\ [][NextCopy]_vars

(***************************************************************************)
(* main.rs: canonicalize_args and main                                     *)
(***************************************************************************)
\* The current directory of the process.
Cwd == <<"/">>

\* A path as the system looks it up: a relative path starts at the current
\* directory.
resolve(path) == IF is_absolute(path) THEN path ELSE join_all(Cwd, components(path))

\* Path::is_dir and Path::is_file of any path: stat, a symbolic link followed.
path_is_dir(path) == IsDirAt(Follow(components(resolve(path))))

path_is_file(path) == IsFileAt(Follow(components(resolve(path))))

\* Path::canonicalize leaving the path as it was given.
canonicalize_identity(path) == path

\* Path::canonicalize of a path that exists: absolute, normalised, links
\* resolved.
canonicalize(path) == TextOf(Follow(components(resolve(path))))

\* unwrap_or_else with an empty list in place of the single empty suffix.
default_suffixes_none == <<>>

\* unwrap_or_else(|| Ok(vec!["".to_string()]))
default_suffixes == << <<>> >>

\* The space check never taken.
insufficient_space_never(needed, available) == FALSE

\* if needed_space > available_space
insufficient_space(needed, available) == needed > available

\* The no_copy check never taken.
copy_disabled_never(flag) == FALSE

\* if args.no_copy
copy_disabled(flag) == flag

\* The tree a whole run is started on:
\*   /s/a.txt   /s/sub/b.log   /s/sub/c.txt   /s/t/   /t/   /sfx   /exc
NameB_log == <<"b", ".", "l", "o", "g">>
NameC_txt == <<"c", ".", "t", "x", "t">>
NameSfx == <<"s", "f", "x">>
NameExc == <<"e", "x", "c">>
NameM == <<"m">>

\* The content of /sfx: the suffix .txt and a comment.
MainSuffixText == <<".", "t", "x", "t", "\n", "/", "/", "x">>

\* The content of /exc: the directory /s/sub and a relative path.
MainExclusionText == TextOf(<<NameS, NameSub>>) \o <<"\n">> \o NameT

MainTree ==
    (<<>> :> Dir)
    @@ (<<NameS>> :> Dir)
    @@ (<<NameS, NameA_txt>> :> File(2, "a"))
    @@ (<<NameS, NameSub>> :> Dir)
    @@ (<<NameS, NameSub, NameB_log>> :> File(1, "b"))
    @@ (<<NameS, NameSub, NameC_txt>> :> File(1, "c"))
    @@ (<<NameS, NameT>> :> Dir)
    @@ (<<NameT>> :> Dir)
    @@ (<<NameSfx>> :> File(Len(MainSuffixText), MainSuffixText))
    @@ (<<NameExc>> :> File(Len(MainExclusionText), MainExclusionText))

\* What the command line may give: absolute and relative paths of what
\* exists, a path of nothing, and a path of the wrong kind.
SrcArgs == {TextOf(<<NameS>>), NameS, TextOf(<<NameM>>), TextOf(<<NameSfx>>)}

DstArgs ==
    {TextOf(<<NameT>>), NameT, TextOf(<<NameS, NameT>>), TextOf(<<NameS>>),
     TextOf(<<NameM>>), TextOf(<<NameExc>>)}

SuffixFileArgs ==
    {<<>>, <<TextOf(<<NameSfx>>)>>, <<NameSfx>>, <<TextOf(<<NameM>>)>>, <<TextOf(<<NameS>>)>>}

ExclusionFileArgs ==
    {<<>>, <<TextOf(<<NameExc>>)>>, <<NameExc>>, <<TextOf(<<NameM>>)>>, <<TextOf(<<NameT>>)>>}

\* What fs4::available_space may answer for the destination.
AvailableSpaces == {0, 3, 100}

\* main after Args::parse.
InitMain ==
    /\ fs = MainTree
    /\ fs0 = fs
    /\ pc = "canonicalize_args"
    /\ src_directory \in SrcArgs
    /\ dst_directory \in DstArgs
    /\ include_suffixes_file \in SuffixFileArgs
    /\ exclude_paths_file \in ExclusionFileArgs
    /\ no_copy \in BOOLEAN
    /\ available_space = 0
    /\ result = "running"
    /\ opened = <<>>
    /\ reader = <<>>
    /\ suffixes = <<>>
    /\ exclusions = <<>>
    /\ log = <<>>
    /\ failing = {}
    /\ stack = <<>>
    /\ files_to_copy = <<>>
    /\ size_pos = 0
    /\ needed_space = 0
    /\ task = <<>>
    /\ panicked = FALSE

\* canonicalize_args, and the ? of main on its result.
CanonicalizeArgs ==
    /\ pc = "canonicalize_args"
    /\ IF ~path_is_dir(src_directory)
       THEN /\ result' = "Err: src_directory is not a directory"
            /\ pc' = "exit"
            /\ UNCHANGED <<src_directory, dst_directory, include_suffixes_file,
                           exclude_paths_file>>
       ELSE IF ~path_is_dir(dst_directory)
       THEN /\ result' = "Err: dst_directory is not a directory"
            /\ pc' = "exit"
            /\ UNCHANGED <<src_directory, dst_directory, include_suffixes_file,
                           exclude_paths_file>>
       ELSE IF include_suffixes_file # <<>> /\ ~path_is_file(include_suffixes_file[1])
       THEN /\ result' = "Err: include_suffixes_file is not a file"
            /\ pc' = "exit"
            /\ UNCHANGED <<src_directory, dst_directory, include_suffixes_file,
                           exclude_paths_file>>
       ELSE IF exclude_paths_file # <<>> /\ ~path_is_file(exclude_paths_file[1])
       THEN /\ result' = "Err: exclude_paths_file is not a file"
            /\ pc' = "exit"
            /\ UNCHANGED <<src_directory, dst_directory, include_suffixes_file,
                           exclude_paths_file>>
       ELSE /\ include_suffixes_file' =
                  [k \in DOMAIN include_suffixes_file |->
                      canonicalize(include_suffixes_file[k])]
            /\ exclude_paths_file' =
                  [k \in DOMAIN exclude_paths_file |-> canonicalize(exclude_paths_file[k])]
            /\ src_directory' = canonicalize(src_directory)
            /\ dst_directory' = canonicalize(dst_directory)
            /\ pc' = "suffixes"
            /\ UNCHANGED result
    /\ UNCHANGED <<fs, opened, reader, suffixes, exclusions, log, failing, stack,
                   files_to_copy, sizeVars, fs0, task, panicked, no_copy, available_space>>

\* File::open and BufReader::new on a list file.
open(path) == fs[Follow(components(resolve(path)))].data

\* main: the suffixes are read from the file, or are the default.
MainSuffixes ==
    /\ pc = "suffixes"
    /\ IF include_suffixes_file # <<>>
       THEN /\ opened' = open(include_suffixes_file[1])
            /\ reader' = opened'
            /\ suffixes' = <<>>
            /\ pc' = "read_suffixes"
       ELSE /\ suffixes' = default_suffixes
            /\ pc' = "suffixes_read"
            /\ UNCHANGED <<opened, reader>>
    /\ UNCHANGED <<mainVars, fs, exclusions, log, walkVars, sizeVars, copyVars>>

\* main: the exclusions are read from the file, or there are none.
MainExclusions ==
    /\ pc = "suffixes_read"
    /\ IF exclude_paths_file # <<>>
       THEN /\ opened' = open(exclude_paths_file[1])
            /\ reader' = opened'
            /\ exclusions' = <<>>
            /\ pc' = "read_exclusions"
       ELSE /\ exclusions' = <<>>
            /\ pc' = "exclusions_read"
            /\ UNCHANGED <<opened, reader>>
    /\ UNCHANGED <<mainVars, fs, suffixes, log, walkVars, sizeVars, copyVars>>

\* main calls find_files_to_copy: WalkDir::new(src_directory).
MainFind ==
    /\ pc = "exclusions_read"
    /\ stack' = <<src_directory>>
    /\ files_to_copy' = <<>>
    /\ pc' = "find_files_to_copy"
    /\ UNCHANGED <<mainVars, fs, opened, reader, suffixes, exclusions, log, failing,
                   src_directory, sizeVars, copyVars>>

\* main after calculate_files_size: the space check, the no_copy check, and
\* the call of copy_files.
MainSpaceCheck ==
    /\ pc = "size_known"
    /\ \E space \in AvailableSpaces :
          /\ available_space' = space
          /\ IF insufficient_space(needed_space, space)
             THEN /\ result' = "Err: There's not enough space to copy all files!"
                  /\ pc' = "exit"
                  /\ UNCHANGED <<fs0, task>>
             ELSE IF copy_disabled(no_copy)
             THEN /\ result' = "Ok"
                  /\ pc' = "exit"
                  /\ UNCHANGED <<fs0, task>>
             ELSE /\ pc' = "copy_files"
                  /\ fs0' = fs
                  /\ task' = [i \in DOMAIN files_to_copy |-> NewTask]
                  /\ UNCHANGED result
    /\ UNCHANGED <<fs, opened, reader, suffixes, exclusions, log, walkVars, sizeVars,
                   dst_directory, panicked, include_suffixes_file, exclude_paths_file,
                   no_copy>>

\* copy_files has returned: Ok(()).
MainReturn ==
    /\ pc = "copied"
    /\ result' = "Ok"
    /\ pc' = "exit"
    /\ UNCHANGED <<fs, opened, reader, suffixes, exclusions, log, walkVars, sizeVars,
                   copyVars, include_suffixes_file, exclude_paths_file, no_copy,
                   available_space>>

NextMain ==
    \/ CanonicalizeArgs
    \/ MainSuffixes
    \/ SuffixLine
    \/ SuffixesReturn
    \/ MainExclusions
    \/ ExclusionLine
    \/ ExclusionsReturn
    \/ MainFind
    \/ WalkEntry
    \/ WalkReturn
    \/ SizeCall
    \/ SizeFile
    \/ SizeReturn
    \/ MainSpaceCheck
    \/ \E i \in DOMAIN task : TaskMap(i)
    \/ \E i \in DOMAIN task : TaskIsDir(i)
    \/ \E i \in DOMAIN task : TaskCreateDir(i)
    \/ \E i \in DOMAIN task : TaskCopyFile(i)
    \/ CopyReturn
    \/ MainReturn

SpecMain == InitMain /\ [][NextMain]_vars

(***************************************************************************)
(* What the claims speak of, stated without the operators above.           *)
(***************************************************************************)
\* The lines of a text: its maximal newline-free segments, the empty
\* segment after a final newline left out.
LineSpans(text) ==
    {se \in (1..Len(text)) \X (0..Len(text)) :
        /\ se[1] <= se[2] + 1
        /\ se[1] = 1 \/ text[se[1] - 1] = "\n"
        /\ se[2] = Len(text) \/ text[se[2] + 1] = "\n"
        /\ \A k \in se[1]..se[2] : text[k] # "\n"}

LinesOf(text) == {SubSeq(text, se[1], se[2]) : se \in LineSpans(text)}

\* t is l without its leading and trailing whitespace.
IsTrimOf(t, l) ==
    \E i \in 1..(Len(l) + 1), j \in 0..Len(l) :
        /\ t = SubSeq(l, i, j)
        /\ \A k \in 1..(i - 1) : l[k] \in White
        /\ \A k \in (j + 1)..Len(l) : l[k] \in White
        /\ t # <<>> => t[1] \notin White /\ t[Len(t)] \notin White

TrimmedLinesOf(text) ==
    {t \in UNION {{SubSeq(l, i, j) : i \in 1..(Len(l) + 1), j \in 0..Len(l)} :
                    l \in LinesOf(text)} :
        \E l \in LinesOf(text) : IsTrimOf(t, l)}

MatchesSuffixPattern(t) ==
    /\ Len(t) >= 1
    /\ \A k \in DOMAIN t : t[k] \in SuffixClass

IsComment(t) == Len(t) >= 2 /\ t[1] = "/" /\ t[2] = "/"

Warned(t) == \E k \in DOMAIN log : log[k].level = "WARN" /\ log[k].arg = t

\* C9: when read_suffixes has returned, its result holds exactly the trimmed
\* lines of the file that match ^[A-Za-z0-9_.\-\s]+$, and every other trimmed
\* line that does not start with // has a warning in the log.
C9_SuffixesAreTheMatchingLines ==
    pc = "suffixes_read" =>
        /\ Range(suffixes) = {t \in TrimmedLinesOf(opened) : MatchesSuffixPattern(t)}
        /\ \A t \in TrimmedLinesOf(opened) :
              ~MatchesSuffixPattern(t) /\ ~IsComment(t) => Warned(t)

\* A file with a line kept only after trimming and a dropped line that was
\* warned about.
C9_Witness ==
    /\ pc = "suffixes_read"
    /\ \E l \in LinesOf(opened) : l \notin Range(suffixes) /\ trim(l) \in Range(suffixes)
    /\ \E t \in TrimmedLinesOf(opened) : ~MatchesSuffixPattern(t) /\ Warned(t)

\* The names of a path text: its maximal non-empty separator-free segments,
\* in order.
NameStarts(t) ==
    {i \in DOMAIN t : t[i] # "/" /\ (i = 1 \/ t[i - 1] = "/")}

NameEnd(t, i) ==
    CHOOSE e \in i..Len(t) :
        /\ \A k \in i..e : t[k] # "/"
        /\ e = Len(t) \/ t[e + 1] = "/"

\* The location a path text names.
LocationOf(t) ==
    LET starts == NameStarts(t)
    IN  [n \in 1..Cardinality(starts) |->
            LET i == CHOOSE x \in starts : Cardinality({y \in starts : y < x}) = n - 1
            IN  SubSeq(t, i, NameEnd(t, i))]

NamesDirectory(t) ==
    LET d == LocationOf(t) IN d \in DOMAIN fs /\ fs[d].kind = "dir"

IsPrefixLoc(a, d) == Len(a) <= Len(d) /\ \A k \in 1..Len(a) : d[k] = a[k]

\* The location is an exclusion or lies beneath one.
ExcludedLoc(d) ==
    \E j \in DOMAIN exclusions : IsPrefixLoc(LocationOf(exclusions[j]), d)

SelectedLocs == {LocationOf(files_to_copy[i]) : i \in DOMAIN files_to_copy}

SourceRoot == LocationOf(src_directory)

\* s is the tail of the name n, character for character.
IsTail(s, n) == \E k \in 0..Len(n) : n = SubSeq(n, 1, k) \o s

MatchesSomeSuffix(n) == \E i \in DOMAIN suffixes : IsTail(suffixes[i], n)

\* The regular files below the source root that the walk comes to: every
\* directory from the root down to the file's own is neither excluded nor
\* failing, and the file's entry does not fail.
ReachedFiles ==
    {d \in DOMAIN fs :
        /\ fs[d].kind = "file"
        /\ Len(d) > Len(SourceRoot) /\ IsPrefixLoc(SourceRoot, d)
        /\ d \notin failing
        /\ \A k \in Len(SourceRoot)..(Len(d) - 1) :
              ~ExcludedLoc(SubSeq(d, 1, k)) /\ SubSeq(d, 1, k) \notin failing}

\* C4: no path find_files_to_copy returns has an exclusion as a prefix of its
\* components, and when an exclusion is the source root or above it nothing is
\* returned.
C4_NothingBeneathAnExclusion ==
    pc = "files_found" =>
        /\ \A d \in SelectedLocs : ~ExcludedLoc(d)
        /\ ExcludedLoc(SourceRoot) => files_to_copy = <<>>

\* Files are returned, and a file with a matching name below an excluded
\* directory of the tree is not among them.
C4_Witness ==
    /\ pc = "files_found"
    /\ files_to_copy # <<>>
    /\ \E d \in DOMAIN fs :
          /\ fs[d].kind = "file" /\ ExcludedLoc(d) /\ MatchesSomeSuffix(d[Len(d)])
          /\ d \notin SelectedLocs

\* The text of exclusion e begins the text of directory d's path although
\* e's components do not begin d's.
TextCollision(e, d) ==
    /\ \E k \in 0..Len(TextOf(d)) : SubSeq(TextOf(d), 1, k) = e
    /\ ~IsPrefixLoc(LocationOf(e), d)

\* C5: a directory whose path text merely begins with the text of an
\* exclusion is not pruned: when no exclusion is a component prefix of it, its
\* files with a matching name are returned.
C5_TextPrefixDoesNotExclude ==
    pc = "files_found" =>
        \A d \in ReachedFiles :
            /\ \E j \in DOMAIN exclusions :
                  TextCollision(exclusions[j], SubSeq(d, 1, Len(d) - 1))
            /\ MatchesSomeSuffix(d[Len(d)])
            => d \in SelectedLocs

\* /s/foo is excluded and /s/foobar/b.txt is returned.
C5_Witness ==
    /\ pc = "files_found"
    /\ \E j \in DOMAIN exclusions : exclusions[j] = TextOf(<<NameS, NameFoo>>)
    /\ <<NameS, NameFoobar, NameB_txt>> \in SelectedLocs
    /\ <<NameS, NameFoo, NameA_txt>> \notin SelectedLocs

\* C6: find_files_to_copy returns, once each, exactly the regular files the
\* walk comes to whose name ends with one of the suffixes.
C6_ExactlyTheMatchingFiles ==
    pc = "files_found" =>
        /\ SelectedLocs = {d \in ReachedFiles : MatchesSomeSuffix(d[Len(d)])}
        /\ Len(files_to_copy) = Cardinality(SelectedLocs)

\* A walk with a failing entry whose sibling is returned, a pruned directory,
\* and a directory and a symbolic link with a matching name left out.
C6_Witness ==
    /\ pc = "files_found"
    /\ <<NameS, NameFoobar, NameB_txt>> \in failing
    /\ <<NameS, NameFoobar, NameX>> \in SelectedLocs
    /\ ExcludedLoc(<<NameS, NameFoo>>)
    /\ MatchesSomeSuffix(NameD) /\ MatchesSomeSuffix(NameL)
    /\ <<NameS, NameD>> \notin failing
    /\ SelectedLocs \cap {<<NameS, NameD>>, <<NameS, NameD, NameL>>} = {}

\* C7: a regular file the walk comes to is returned if and only if some
\* suffix is the tail of its file name, compared character for character;
\* the names of its directories play no part.
C7_SuffixIsTailOfFileName ==
    pc = "files_found" =>
        \A d \in ReachedFiles : d \in SelectedLocs <=> MatchesSomeSuffix(d[Len(d)])

\* With the one suffix .txt: r.txt is returned; x.txt2, R.TXT and c.log in
\* the directory d.txt are not.
C7_Witness ==
    /\ pc = "files_found"
    /\ suffixes = << <<".", "t", "x", "t">> >>
    /\ exclusions = <<>> /\ failing = {}
    /\ <<NameS, NameR>> \in SelectedLocs
    /\ <<NameS, NameFoobar, NameX>> \notin SelectedLocs
    /\ <<NameS, NameFoobar, NameUpper>> \notin SelectedLocs
    /\ <<NameS, NameD, NameC>> \notin SelectedLocs

RECURSIVE SumOver(_, _)
SumOver(S, f) ==
    IF S = {} THEN 0
    ELSE LET x == CHOOSE y \in S : TRUE IN f[x] + SumOver(S \ {x}, f)

\* The listed paths that still name a file when the sizes are read.
SizedLocs ==
    {d \in {LocationOf(files_to_copy[i]) : i \in DOMAIN files_to_copy} : d \in DOMAIN fs}

\* C8: calculate_files_size returns the sum of the sizes of the listed files
\* that still exist; a file removed after the selection adds nothing and has
\* a warning in the log.
C8_SizeIsSumOfReadableFiles ==
    pc = "size_known" =>
        /\ needed_space = SumOver(SizedLocs, [d \in SizedLocs |-> fs[d].size])
        /\ \A i \in DOMAIN files_to_copy :
              LocationOf(files_to_copy[i]) \notin DOMAIN fs => Warned(files_to_copy[i])

\* Three files were listed, the second was removed before the sizes were
\* read, and the others add up to more than nothing.
C8_Witness ==
    /\ pc = "size_known"
    /\ Len(files_to_copy) = 3
    /\ LocationOf(files_to_copy[1]) \in DOMAIN fs
    /\ LocationOf(files_to_copy[2]) \notin DOMAIN fs
    /\ LocationOf(files_to_copy[3]) \in DOMAIN fs
    /\ needed_space > 0

DestRoot == LocationOf(dst_directory)

\* Where the i-th path is to arrive: the destination root followed by the
\* names of the path below the source root.
SourceLoc(i) == LocationOf(files_to_copy[i])

DestLoc(i) ==
    DestRoot \o SubSeq(SourceLoc(i), Len(SourceRoot) + 1, Len(SourceLoc(i)))

\* The directories between the destination root and the i-th destination.
DestDirs(i) == {SubSeq(DestLoc(i), 1, k) : k \in (Len(DestRoot) + 1)..(Len(DestLoc(i)) - 1)}

\* The i-th source file existed and could be read when copy_files was called.
Copyable(i) ==
    /\ SourceLoc(i) \in DOMAIN fs0 /\ fs0[SourceLoc(i)].kind = "file"
    /\ SourceLoc(i) \notin failing

\* Nothing stood in the way of the i-th destination: no directory of its
\* path is refused or taken by a file, and the place of the file is free or
\* holds a file.
Creatable(i) ==
    /\ \A a \in DestDirs(i) : a \notin failing /\ (a \in DOMAIN fs0 => fs0[a].kind = "dir")
    /\ DestLoc(i) \notin failing
    /\ DestLoc(i) \in DOMAIN fs0 => fs0[DestLoc(i)].kind = "file"

Arrived(i) ==
    /\ DestLoc(i) \in DOMAIN fs /\ fs[DestLoc(i)].kind = "file"
    /\ fs[DestLoc(i)].data = fs0[SourceLoc(i)].data
    /\ \A a \in DestDirs(i) : a \in DOMAIN fs /\ fs[a].kind = "dir"

\* C1: when copy_files has returned, every listed file that could be read and
\* whose destination directories could be created is a regular file at its
\* place under the destination, with the content of the source, below
\* directories that all exist.
C1_CopyableFilesArrive ==
    pc = "copied" =>
        \A i \in DOMAIN files_to_copy : Copyable(i) /\ Creatable(i) => Arrived(i)

\* The i-th closure called create_dir on a path that another closure had
\* made a directory in the meantime.
LostRace(i) ==
    /\ task[i].mkdir = "AlreadyExists"
    /\ LocationOf(task[i].dir_path) \in DOMAIN fs
    /\ fs[LocationOf(task[i].dir_path)].kind = "dir"

ReportedFailure(i) ==
    \E k \in DOMAIN log :
        /\ log[k].level = "WARN"
        /\ log[k].what = "Failed to create parent directories"
        /\ log[k].arg = task[i].dst_path

\* C2: a closure whose create_dir finds the directory already made by another
\* reports no failure and goes on with the deeper directories of its path.
C2_AlreadyExistsIsSuccess ==
    \A i \in DOMAIN task :
        LostRace(i) =>
            /\ ~ReportedFailure(i)
            /\ task[i].pc \in {"copy", "done"} => task[i].todo = <<>>

\* C3: copy_files never panics, no closure ends before it has called
\* fs::copy, and when copy_files has returned fs::copy was called for every
\* path, whatever failed.
C3_EveryCopyIsAttempted ==
    /\ ~panicked
    /\ \A i \in DOMAIN task : task[i].pc = "done" => task[i].copy \in {"ok", "err"}
    /\ pc = "copied" => \A i \in DOMAIN files_to_copy : task[i].copy \in {"ok", "err"}

\* copy_files has returned after a create_dir failed, a copy failed and
\* another copy succeeded.
C3_Witness ==
    /\ pc = "copied"
    /\ \E i \in DOMAIN task : task[i].mkdir \notin {"none", "Ok"}
    /\ \E i \in DOMAIN task : task[i].copy = "err"
    /\ \E i \in DOMAIN task : task[i].copy = "ok"

\* C11: when either loader has returned, no trimmed line of its file that
\* begins with // is in the result or has a warning in the log, whatever
\* follows the prefix.
C11_CommentsAreSilentlySkipped ==
    pc \in {"suffixes_read", "exclusions_read"} =>
        \A t \in TrimmedLinesOf(opened) :
            IsComment(t) =>
                /\ t \notin Range(suffixes)
                /\ t \notin Range(exclusions)
                /\ ~Warned(t)

\* read_exclusions has returned on a file with a comment whose text names a
\* directory of the filesystem and with another line that was warned about.
C11_Witness ==
    /\ pc = "exclusions_read"
    /\ \E t \in TrimmedLinesOf(opened) : IsComment(t) /\ NamesDirectory(t)
    /\ \E t \in TrimmedLinesOf(opened) : ~IsComment(t) /\ Warned(t)

\* C12: in a run without a suffix file the suffix list is the single empty
\* text, every name ends with it, and find_files_to_copy returns, once each,
\* exactly the regular files the walk comes to.
C12_NoSuffixFileSelectsEveryFile ==
    include_suffixes_file = <<>> /\ pc = "files_found" =>
        /\ suffixes = << <<>> >>
        /\ \A d \in DOMAIN fs : d # <<>> => MatchesSomeSuffix(d[Len(d)])
        /\ SelectedLocs = ReachedFiles
        /\ Len(files_to_copy) = Cardinality(ReachedFiles)

\* A run without a suffix file and with the exclusion /s/sub: a.txt is
\* returned, b.log and c.txt below the pruned directory are not.
C12_Witness ==
    /\ include_suffixes_file = <<>> /\ pc = "files_found"
    /\ exclusions = <<TextOf(<<NameS, NameSub>>)>>
    /\ SelectedLocs = {<<NameS, NameA_txt>>}

\* Something under the destination root is there now and was not when the
\* run began.
CreatedUnderDest ==
    {d \in DOMAIN fs : IsPrefixLoc(DestRoot, d) /\ d \notin DOMAIN fs0}

NotEnoughSpace == result = "Err: There's not enough space to copy all files!"

\* C13: copy_files runs only after calculate_files_size has returned and
\* needed_space <= available_space was found; a run that finds
\* needed_space > available_space ends with the error and has changed
\* nothing: no file or directory was created under the destination.
C13_NoCopyWithoutSpace ==
    /\ pc \in {"copy_files", "copied"} \/ fs # fs0 \/ task # <<>> =>
          /\ needed_space <= available_space
          /\ size_pos > Len(files_to_copy)
    /\ pc = "exit" /\ needed_space > available_space =>
          /\ NotEnoughSpace
          /\ task = <<>>
          /\ fs = fs0 /\ CreatedUnderDest = {}
    /\ NotEnoughSpace => needed_space > available_space

\* A run that selected files of 4 bytes and found 3 bytes available has
\* ended with the error.
C13_Witness ==
    /\ pc = "exit" /\ NotEnoughSpace
    /\ ~no_copy
    /\ needed_space = 4 /\ available_space = 3

\* C14: a run with no_copy set never calls copy_files: no closure of the
\* copy exists, the filesystem stays what it was when the run began, and when
\* the run ends with Ok the walk and the size check have been done.
C14_NoCopyLeavesDestination ==
    no_copy =>
        /\ pc \notin {"copy_files", "copied"}
        /\ task = <<>>
        /\ fs = fs0
        /\ result = "Ok" =>
              /\ stack = <<>> /\ size_pos = Len(files_to_copy) + 1
              /\ needed_space <= available_space

\* A run with no_copy set has selected files, found space enough for them,
\* and ended with Ok.
C14_Witness ==
    /\ no_copy /\ pc = "exit" /\ result = "Ok"
    /\ Len(files_to_copy) = 3
    /\ needed_space = 4 /\ available_space = 100

\* The location an argument names: a text that begins with / is taken from
\* the root, any other from the current directory.
ArgLoc(t) ==
    IF t # <<>> /\ t[1] = "/" THEN LocationOf(t) ELSE LocationOf(Cwd) \o LocationOf(t)

ArgIsDir(t) == ArgLoc(t) \in DOMAIN fs /\ fs[ArgLoc(t)].kind = "dir"

ArgIsFile(t) == ArgLoc(t) \in DOMAIN fs /\ fs[ArgLoc(t)].kind = "file"

\* The source or the destination is missing or no directory, or a list file
\* that was given is missing or no regular file.
BadArgs ==
    \/ ~ArgIsDir(src_directory)
    \/ ~ArgIsDir(dst_directory)
    \/ \E k \in DOMAIN include_suffixes_file : ~ArgIsFile(include_suffixes_file[k])
    \/ \E k \in DOMAIN exclude_paths_file : ~ArgIsFile(exclude_paths_file[k])

ArgsError == result \notin {"running", "Ok"} /\ ~NotEnoughSpace

NothingDone ==
    /\ opened = <<>> /\ reader = <<>> /\ suffixes = <<>> /\ exclusions = <<>>
    /\ log = <<>> /\ stack = <<>> /\ files_to_copy = <<>>
    /\ size_pos = 0 /\ task = <<>> /\ fs = fs0

\* C15: canonicalize_args answers with an error exactly when an argument is
\* bad, the run then ends with nothing loaded, traversed or copied; when it
\* succeeds every path of the arguments begins with / and names what it named
\* before.
C15_BadArgsEndTheRun ==
    /\ [](ArgsError => pc = "exit" /\ NothingDone)
    /\ [][/\ pc # "exit"
          /\ pc = "canonicalize_args" =>
                IF BadArgs
                THEN /\ pc' = "exit"
                     /\ result' \notin {"running", "Ok"}
                ELSE /\ pc' # "exit" /\ result' = "running"
                     /\ src_directory'[1] = "/" /\ dst_directory'[1] = "/"
                     /\ ArgLoc(src_directory') = ArgLoc(src_directory)
                     /\ ArgLoc(dst_directory') = ArgLoc(dst_directory)
                     /\ DOMAIN include_suffixes_file' = DOMAIN include_suffixes_file
                     /\ DOMAIN exclude_paths_file' = DOMAIN exclude_paths_file
                     /\ \A k \in DOMAIN include_suffixes_file :
                           /\ include_suffixes_file'[k][1] = "/"
                           /\ ArgLoc(include_suffixes_file'[k]) = ArgLoc(include_suffixes_file[k])
                     /\ \A k \in DOMAIN exclude_paths_file :
                           /\ exclude_paths_file'[k][1] = "/"
                           /\ ArgLoc(exclude_paths_file'[k]) = ArgLoc(exclude_paths_file[k])]_vars

\* A run whose directories exist and whose suffix file is a directory has
\* ended with the error of canonicalize_args.
C15_Witness ==
    /\ pc = "exit" /\ ArgsError /\ NothingDone
    /\ ArgIsDir(src_directory) /\ ArgIsDir(dst_directory)
    /\ \E k \in DOMAIN include_suffixes_file : ArgIsDir(include_suffixes_file[k])

\* C16: a closure whose create_dir has failed does not go on to fs::copy:
\* its file is neither copied nor tried.
C16_FailedDirectorySkipsFile ==
    \A i \in DOMAIN task :
        task[i].mkdir \notin {"none", "Ok"} => task[i].pc # "done" /\ task[i].copy = "none"

\* What copy_files has made or changed: the locations that were not there
\* when it was called, or hold something else now.
Touched == {d \in DOMAIN fs : d \notin DOMAIN fs0 \/ fs[d] # fs0[d]}

\* The regular files below the source root that are not among the paths.
UnlistedSources ==
    {d \in DOMAIN fs0 :
        /\ fs0[d].kind = "file"
        /\ Len(d) > Len(SourceRoot) /\ IsPrefixLoc(SourceRoot, d)
        /\ d \notin SelectedLocs}

CounterpartOf(d) == DestRoot \o SubSeq(d, Len(SourceRoot) + 1, Len(d))

\* C17: copy_files removes nothing; every regular file it creates or
\* overwrites is the destination of one of the paths, every directory it
\* creates is new and lies between the destination root and such a
\* destination, and the counterpart of a source file that is not among the
\* paths is left as it was.
C17_OnlyListedFilesAreMirrored ==
    /\ DOMAIN fs0 \subseteq DOMAIN fs
    /\ \A d \in Touched :
          \/ fs[d].kind = "file" /\ \E i \in DOMAIN files_to_copy : d = DestLoc(i)
          \/ /\ fs[d].kind = "dir" /\ d \notin DOMAIN fs0
             /\ \E i \in DOMAIN files_to_copy : d \in DestDirs(i)
    /\ \A d \in UnlistedSources : CounterpartOf(d) \notin Touched

\* copy_files has returned after creating two directories and copying two
\* files, one of them two directories deep, while e.txt and others of the
\* source were not among the paths.
C17_Witness ==
    /\ pc = "copied"
    /\ Cardinality({d \in Touched : fs[d].kind = "dir"}) >= 2
    /\ Cardinality({d \in Touched : fs[d].kind = "file"}) >= 2
    /\ <<NameS, NameFoo, NameA_txt>> \in UnlistedSources
    /\ <<NameT, NameFoo, NameSub, NameE_txt>> \in Touched

\* C18: when read_suffixes has returned on a file with a line that is empty
\* after trimming, the empty suffix is in its result.
C18_EmptySuffixIsKept ==
    pc = "suffixes_read" /\ <<>> \in TrimmedLinesOf(opened) => <<>> \in Range(suffixes)

\* C19: from the call of copy_files on, every selected file is where it was
\* and holds what it held when it was selected, wherever the destination
\* lies.
C19_SourceIsNeverChanged ==
    pc \in {"copy_files", "copied", "exit"} =>
        \A i \in DOMAIN files_to_copy :
            /\ SourceLoc(i) \in DOMAIN fs
            /\ fs[SourceLoc(i)] = fs0[SourceLoc(i)]

\* The place of a position of main in the order load, select, size, copy.
Stage(at) ==
    CASE at = "canonicalize_args" -> 0
      [] at = "suffixes" -> 1
      [] at = "read_suffixes" -> 2
      [] at = "suffixes_read" -> 3
      [] at = "read_exclusions" -> 4
      [] at = "exclusions_read" -> 5
      [] at = "find_files_to_copy" -> 6
      [] at = "files_found" -> 7
      [] at = "calculate_files_size" -> 8
      [] at = "size_known" -> 9
      [] at = "copy_files" -> 10
      [] at = "copied" -> 11
      [] at = "exit" -> 12

\* C20: a run never goes back to an earlier stage; the list of files only
\* changes during the selection and the filesystem only during the copy,
\* which starts when the walk and the size sum are over; so nothing the copy
\* has created is among the selected files.
C20_SelectionIsFixedBeforeCopy ==
    /\ [](fs # fs0 => /\ pc \in {"copy_files", "copied", "exit"}
                      /\ stack = <<>> /\ size_pos > Len(files_to_copy))
    /\ [](\A d \in DOMAIN fs : d \notin DOMAIN fs0 => d \notin SelectedLocs)
    /\ [][/\ Stage(pc') >= Stage(pc)
          /\ files_to_copy' # files_to_copy => pc \in {"exclusions_read", "find_files_to_copy"}
          /\ fs' # fs => pc = "copy_files" /\ pc' = "copy_files"]_vars

\* A run whose destination lies inside the source tree has ended with Ok:
\* it has created files and a directory beneath the source root, and none of
\* them is among the three files it selected.
C20_Witness ==
    /\ pc = "exit" /\ result = "Ok"
    /\ Len(DestRoot) > Len(SourceRoot) /\ IsPrefixLoc(SourceRoot, DestRoot)
    /\ Len(files_to_copy) = 3
    /\ Cardinality(CreatedUnderDest) = 4
    /\ CreatedUnderDest \cap SelectedLocs = {}

====
